---- MODULE Spec2Model ----
(***************************************************************************)
(* Model of scripts/fan_control/fan_speed_monitor.py: class TrueNASSensor. *)
(*                                                                         *)
(* Text is modelled at character level: a Python str is a sequence of      *)
(* one-character strings, so that `in`, str.split, str.strip, int(),       *)
(* float() and re.search(r'(\d{3,5})') are computed the way Python         *)
(* computes them.  A float is the exact rational num/den in lowest terms.  *)
(* A Python exception that leaves a method is the field `raised` of the    *)
(* method's result.                                                        *)
(***************************************************************************)
EXTENDS Integers, Sequences, FiniteSets, TLC

VARIABLES
    today,      \* calendar day that datetime.now() currently reports
    log_file,   \* self.log_file, fixed by __init__
    files,      \* the file system under log_dir: file name -> contents
    polls,      \* number of log_status calls made so far
    src,        \* what the three subprocess.run calls and the write did in the last poll
    status,     \* the dict returned by the last log_status call
    raised,     \* the exception that left the last log_status call, or "none"
    stderr,     \* the messages printed to sys.stderr so far
    arg,        \* parser drivers: outcome of the subprocess.run call
    ret,        \* parser drivers: result of the parser
    pc          \* position of the caller

vars == <<today, log_file, files, polls, src, status, raised, stderr, arg, ret, pc>>

(***************************************************************************)
(* Bounds of the model.                                                    *)
(***************************************************************************)
MaxDay == 1
MaxPolls == 2
MaxLines == 3
MaxFanLines == 2
MaxCpuLen == 3

(***************************************************************************)
(* Python values.                                                          *)
(***************************************************************************)
None == [tag |-> "None"]

RECURSIVE Gcd(_, _)
Gcd(a, b) == IF b = 0 THEN a ELSE Gcd(b, a % b)

Abs(n) == IF n < 0 THEN -n ELSE n

\* The float num/den, in lowest terms (den > 0).
Float(num, den) ==
    LET g == Gcd(Abs(num), den)
    IN  [tag |-> "float", num |-> num \div g, den |-> den \div g]

EmptyDict == <<>>

\* d[k] = v
DictSet(d, k, v) == [x \in (DOMAIN d) \cup {k} |-> IF x = k THEN v ELSE d[x]]

(***************************************************************************)
(* Python str operations on character sequences.                           *)
(***************************************************************************)
Digits == {"0", "1", "2", "3", "4", "5", "6", "7", "8", "9"}

DigitVal(c) ==
    CASE c = "0" -> 0 [] c = "1" -> 1 [] c = "2" -> 2 [] c = "3" -> 3
      [] c = "4" -> 4 [] c = "5" -> 5 [] c = "6" -> 6 [] c = "7" -> 7
      [] c = "8" -> 8 [] c = "9" -> 9

Whitespace == {" ", "\n", "\t"}

\* sub in s
Contains(s, sub) ==
    \E i \in 0..(Len(s) - Len(sub)) : SubSeq(s, i + 1, i + Len(sub)) = sub

\* s.split(c) for a one-character separator c
RECURSIVE Split(_, _)
Split(s, c) ==
    IF \A i \in 1..Len(s) : s[i] # c
    THEN <<s>>
    ELSE LET i == CHOOSE j \in 1..Len(s) :
                      s[j] = c /\ \A k \in 1..(j - 1) : s[k] # c
         IN  <<SubSeq(s, 1, i - 1)>> \o Split(SubSeq(s, i + 1, Len(s)), c)

\* s.strip()
RECURSIVE LStrip(_)
LStrip(s) ==
    IF s # <<>> /\ s[1] \in Whitespace THEN LStrip(Tail(s)) ELSE s

RECURSIVE RStrip(_)
RStrip(s) ==
    IF s # <<>> /\ s[Len(s)] \in Whitespace
    THEN RStrip(SubSeq(s, 1, Len(s) - 1))
    ELSE s

Strip(s) == RStrip(LStrip(s))

\* the decimal value of a sequence of digits
RECURSIVE DecValue(_)
DecValue(ds) ==
    IF ds = <<>> THEN 0
    ELSE 10 * DecValue(SubSeq(ds, 1, Len(ds) - 1)) + DigitVal(ds[Len(ds)])

AllDigits(s) == \A i \in 1..Len(s) : s[i] \in Digits

RECURSIVE Pow10(_)
Pow10(n) == IF n = 0 THEN 1 ELSE 10 * Pow10(n - 1)

HasSign(t) == t # <<>> /\ t[1] \in {"+", "-"}

Unsigned(t) == IF HasSign(t) THEN Tail(t) ELSE t

Sign(t) == IF t # <<>> /\ t[1] = "-" THEN -1 ELSE 1

\* int(s): surrounding whitespace, an optional sign, decimal digits;
\* anything else is a ValueError (ok = FALSE).
ParseInt(s) ==
    LET t == Strip(s)
        u == Unsigned(t)
    IN  IF u # <<>> /\ AllDigits(u)
        THEN [ok |-> TRUE, val |-> Sign(t) * DecValue(u)]
        ELSE [ok |-> FALSE, val |-> 0]

\* float(s): surrounding whitespace, an optional sign, digits with at most
\* one decimal point and at least one digit; anything else is a ValueError.
ParseFloat(s) ==
    LET t == Strip(s)
        u == Unsigned(t)
        p == Split(u, ".")
        whole == p[1]
        frac == IF Len(p) = 2 THEN p[2] ELSE <<>>
    IN  IF /\ Len(p) <= 2
           /\ AllDigits(whole) /\ AllDigits(frac)
           /\ Len(whole) + Len(frac) > 0
        THEN [ok |-> TRUE,
              val |-> Float(Sign(t) * (DecValue(whole) * Pow10(Len(frac)) + DecValue(frac)),
                            Pow10(Len(frac)))]
        ELSE [ok |-> FALSE, val |-> None]

(***************************************************************************)
(* subprocess.run(..., capture_output=True, text=True, timeout=5): the     *)
(* call returns the captured stdout, or raises FileNotFoundError (no such  *)
(* binary) or TimeoutExpired.                                              *)
(***************************************************************************)
Ran(text) == [kind |-> "ok", stdout |-> text]
NotFound == [kind |-> "FileNotFoundError", stdout |-> <<>>]
TimedOut == [kind |-> "TimeoutExpired", stdout |-> <<>>]

Returned(v) == [raised |-> "none", value |-> v]
Raised(e) == [raised |-> e, value |-> None]

(***************************************************************************)
(* get_drive_temperatures                                                  *)
(***************************************************************************)
W_drivetemp_scsi == <<"d","r","i","v","e","t","e","m","p","-","s","c","s","i">>
W_temp1 == <<"t","e","m","p","1",":">>

\* The local variable device_id: never assigned at the start of a call.
Unbound == [bound |-> FALSE, id |-> <<>>]
Bound(id) == [bound |-> TRUE, id |-> id]

\* try: temp_str = line.split('+')[1].split('°')[0]; temps[device_id] = float(temp_str)
\* except (IndexError, ValueError): pass
ParseTemp1(temps, device_id, line) ==
    LET plus == Split(line, "+")
    IN  IF Len(plus) < 2
        THEN temps
        ELSE LET temp_str == Split(plus[2], "°")[1]
                 f == ParseFloat(temp_str)
             IN  IF f.ok THEN DictSet(temps, device_id, f.val) ELSE temps

\* One iteration of the loop over result.stdout.split('\n').
DriveLine(st, line) ==
    IF st.raised # "none" THEN st
    ELSE IF Contains(line, W_drivetemp_scsi)
    THEN LET parts == Split(line, "-")
         IN  IF Len(parts) >= 3
             THEN [st EXCEPT !.device_id = Bound(parts[Len(parts)]),
                             !.temps = DictSet(st.temps, parts[Len(parts)], None)]
             ELSE st
    ELSE IF Contains(line, W_temp1)
    THEN IF ~st.device_id.bound
         THEN [st EXCEPT !.raised = "UnboundLocalError"]
         ELSE IF st.device_id.id # <<>> /\ st.device_id.id \in DOMAIN st.temps
         THEN [st EXCEPT !.temps = ParseTemp1(st.temps, st.device_id.id, line)]
         ELSE st
    ELSE st

RECURSIVE DriveScan(_, _)
DriveScan(st, lines) ==
    IF lines = <<>> THEN st
    ELSE DriveScan(DriveLine(st, Head(lines)), Tail(lines))

get_drive_temperatures(run) ==
    IF run.kind = "ok"
    THEN LET st == DriveScan([temps |-> EmptyDict, device_id |-> Unbound,
                              raised |-> "none"],
                             Split(run.stdout, "\n"))
         IN  IF st.raised = "none" THEN Returned(st.temps) ELSE Raised(st.raised)
    ELSE Returned(EmptyDict)

(***************************************************************************)
(* get_cpu_temperature                                                     *)
(***************************************************************************)
\* The except clause names TimeoutExpired and ValueError only.
get_cpu_temperature(run) ==
    IF run.kind = "TimeoutExpired" THEN Returned(None)
    ELSE IF run.kind # "ok" THEN Raised(run.kind)
    ELSE IF Strip(run.stdout) # <<>>
    THEN LET temp_millidegrees == ParseInt(Strip(run.stdout))
         IN  IF temp_millidegrees.ok
             THEN Returned(Float(temp_millidegrees.val, 1000))
             ELSE Returned(None)
    ELSE Returned(None)

(***************************************************************************)
(* get_fan_status                                                          *)
(***************************************************************************)
W_FAN1 == <<"F","A","N","1">>
W_FAN2 == <<"F","A","N","2">>
W_FAN3 == <<"F","A","N","3">>
W_FAN4 == <<"F","A","N","4">>
W_FANA == <<"F","A","N","A">>
W_FANB == <<"F","A","N","B">>

FanNames == <<W_FAN1, W_FAN2, W_FAN3, W_FAN4, W_FANA, W_FANB>>

RpmMinDigits == 3
RpmMaxDigits == 5

DigitsAt(line, i, n) ==
    i + n - 1 <= Len(line) /\ AllDigits(SubSeq(line, i, i + n - 1))

\* re.search(r'(\d{3,5})', line): the leftmost match, as long as it can be.
ReSearchRpm(line) ==
    IF \E i \in 1..Len(line) : DigitsAt(line, i, RpmMinDigits)
    THEN LET i == CHOOSE j \in 1..Len(line) :
                      /\ DigitsAt(line, j, RpmMinDigits)
                      /\ \A k \in 1..(j - 1) : ~DigitsAt(line, k, RpmMinDigits)
             n == CHOOSE m \in RpmMinDigits..RpmMaxDigits :
                      /\ DigitsAt(line, i, m)
                      /\ (m = RpmMaxDigits \/ ~DigitsAt(line, i, m + 1))
         IN  [found |-> TRUE, group |-> SubSeq(line, i, i + n - 1)]
    ELSE [found |-> FALSE, group |-> <<>>]

\* The inner loop over the fan names, for one line.
RECURSIVE FanLine_first_wins(_, _, _)
FanLine_first_wins(fans, line, names) ==
    IF names = <<>> THEN fans
    ELSE LET fan_name == Head(names)
             rpm_match == ReSearchRpm(line)
         IN  IF /\ Contains(line, fan_name) /\ rpm_match.found
                /\ fan_name \notin DOMAIN fans
             THEN FanLine_first_wins(DictSet(fans, fan_name, DecValue(rpm_match.group)),
                                     line, Tail(names))
             ELSE FanLine_first_wins(fans, line, Tail(names))

RECURSIVE FanLine(_, _, _)
FanLine(fans, line, names) ==
    IF names = <<>> THEN fans
    ELSE LET fan_name == Head(names)
             rpm_match == ReSearchRpm(line)
         IN  IF Contains(line, fan_name) /\ rpm_match.found
             THEN FanLine(DictSet(fans, fan_name, DecValue(rpm_match.group)),
                          line, Tail(names))
             ELSE FanLine(fans, line, Tail(names))

RECURSIVE FanScan(_, _)
FanScan(fans, lines) ==
    IF lines = <<>> THEN fans
    ELSE FanScan(FanLine(fans, Head(lines), FanNames), Tail(lines))

get_fan_status_keep_empty(run) ==
    IF run.kind = "ok"
    THEN Returned(FanScan(EmptyDict, Split(run.stdout, "\n")))
    ELSE Returned(None)

get_fan_status(run) ==
    IF run.kind = "ok"
    THEN LET fans == FanScan(EmptyDict, Split(run.stdout, "\n"))
         IN  IF fans # EmptyDict THEN Returned(fans) ELSE Returned(None)
    ELSE Returned(None)

(***************************************************************************)
(* The clock and the log file name.                                        *)
(***************************************************************************)
\* datetime.now() on day number n of the run; day 0 is 2024-12-30.
DateOf(n) ==
    IF n <= 1
    THEN [year |-> 2024, month |-> 12, day |-> 30 + n]
    ELSE [year |-> 2025, month |-> 1, day |-> n - 1]

\* date.strftime('%Y%m%d'), read as a number
Strftime(date) == date.year * 10000 + date.month * 100 + date.day

\* log_dir / f"fan_monitor_{...}.log"
LogFileName(date) ==
    [prefix |-> "fan_monitor_", ymd |-> Strftime(date), suffix |-> ".log"]

\* datetime.now().isoformat(): the date part of the timestamp
IsoFormat(date) == <<date.year, date.month, date.day>>

LogFiles == {LogFileName(DateOf(n)) : n \in 0..MaxDay}

(***************************************************************************)
(* log_status                                                              *)
(***************************************************************************)
\* with open(self.log_file, 'a') as f: f.write(json.dumps(status) + '\n')
\* except IOError: print a warning.  io is what the file system does;
\* the result is the file system afterwards and the exception that leaves
\* the try statement.
WriteLog_truncate(fs, path, st, io) ==
    IF io = "ok"
    THEN [files |-> [fs EXCEPT ![path] = <<[json |-> st, end |-> "\n"]>>],
          raised |-> "none"]
    ELSE [files |-> fs, raised |-> "none"]

WriteLog_uncaught(fs, path, st, io) ==
    IF io = "ok"
    THEN [files |-> [fs EXCEPT ![path] = Append(@, [json |-> st, end |-> "\n"])],
          raised |-> "none"]
    ELSE [files |-> fs, raised |-> io]

WriteLog(fs, path, st, io) ==
    IF io = "ok"
    THEN [files |-> [fs EXCEPT ![path] = Append(@, [json |-> st, end |-> "\n"])],
          raised |-> "none"]
    ELSE [files |-> fs, raised |-> "none"]

NoStatus == [timestamp |-> <<>>]

\* The messages get_drive_temperatures and the write print to sys.stderr.
Messages(sensors, wrote, io) ==
    (IF sensors.kind # "ok" THEN <<"Error reading drive temperatures">> ELSE <<>>)
    \o (IF wrote /\ io # "ok" THEN <<"Warning: Could not write to log file">> ELSE <<>>)

\* One call of log_status: [raised, status, files, stderr].
log_status(path, fs, now, sensors, thermal, ipmitool, io) ==
    LET timestamp == IsoFormat(now)
        drive_temps == get_drive_temperatures(sensors)
        cpu_temp == get_cpu_temperature(thermal)
        fan_status == get_fan_status(ipmitool)
        st == [timestamp |-> timestamp,
               drive_temps |-> drive_temps.value,
               cpu_temp |-> cpu_temp.value,
               fan_status |-> fan_status.value]
    IN  IF drive_temps.raised # "none"
        THEN [raised |-> drive_temps.raised, status |-> NoStatus, files |-> fs,
              stderr |-> Messages(sensors, FALSE, io)]
        ELSE IF cpu_temp.raised # "none"
        THEN [raised |-> cpu_temp.raised, status |-> NoStatus, files |-> fs,
              stderr |-> Messages(sensors, FALSE, io)]
        ELSE IF fan_status.raised # "none"
        THEN [raised |-> fan_status.raised, status |-> NoStatus, files |-> fs,
              stderr |-> Messages(sensors, FALSE, io)]
        ELSE LET w == WriteLog(fs, path, st, io)
             IN  [raised |-> w.raised,
                  status |-> IF w.raised = "none" THEN st ELSE NoStatus,
                  files |-> w.files,
                  stderr |-> Messages(sensors, TRUE, io)]

(***************************************************************************)
(* The text the external commands print.                                   *)
(***************************************************************************)
RECURSIVE Join(_)
Join(lines) ==
    IF lines = <<>> THEN <<>>
    ELSE IF Len(lines) = 1 THEN lines[1]
    ELSE lines[1] \o <<"\n">> \o Join(Tail(lines))

SeqsUpTo(S, n) == UNION {[1..k -> S] : k \in 0..n}

\* sensors -u
L_hdr_0_0 == W_drivetemp_scsi \o <<"-","0","-","0">>
L_hdr_1_0 == W_drivetemp_scsi \o <<"-","1","-","0">>
L_hdr_0_f0 == W_drivetemp_scsi \o <<"-","0","-","f","0">>
L_hdr_short == W_drivetemp_scsi
L_temp_ok == W_temp1 \o <<" ","+","4","1",".","0","°","C"," ","(","l","o","w"," ","="," ","+","0",".","0","°","C",")">>
L_temp_ok2 == W_temp1 \o <<" ","+","3","5",".","5","°","C">>
L_temp_noplus == W_temp1 \o <<" ","4","1",".","0","°","C">>
L_temp_nodeg == W_temp1 \o <<" ","+","4","1",".","0">>
L_temp_nonnum == W_temp1 \o <<" ","+","N","/","A","°","C">>
L_adapter == <<"A","d","a","p","t","e","r">>

HeaderLines == {L_hdr_0_0, L_hdr_1_0, L_hdr_0_f0}
MalformedTempLines == {L_temp_noplus, L_temp_nodeg, L_temp_nonnum}
TempLines == {L_temp_ok, L_temp_ok2} \cup MalformedTempLines
DriveLines == HeaderLines \cup TempLines \cup {L_hdr_short, L_adapter}

DriveRuns ==
    {NotFound, TimedOut} \cup {Ran(Join(ls)) : ls \in SeqsUpTo(DriveLines, MaxLines)}

\* cat /sys/class/thermal/thermal_zone*/temp 2>/dev/null | head -1:
\* at most one line, with or without its newline
CpuChars == {"4", "5", "0", "-", " ", "x"}
CpuTexts ==
    LET body == SeqsUpTo(CpuChars, MaxCpuLen) \cup {<<"4","5","0","0","0">>}
    IN  body \cup {b \o <<"\n">> : b \in body}

CpuRuns == {NotFound, TimedOut} \cup {Ran(t) : t \in CpuTexts}

\* ipmitool sdr
L_fan1_1200 == W_FAN1 \o <<" ","|"," ","1","2","0","0"," ","R","P","M">>
L_fan1_900 == W_FAN1 \o <<" ","|"," ","9","0","0"," ","R","P","M">>
L_fan2_012 == W_FAN2 \o <<" ","|"," ","0","1","2">>
L_fana_long == W_FANA \o <<" ","1","2","3","4","5","6","7">>
L_fan3_nr == W_FAN3 \o <<" ","|"," ","n","o"," ","r","e","a","d","i","n","g">>
L_fan4_55 == W_FAN4 \o <<" ","|"," ","5","5"," ","R","P","M">>
L_fanb_two == <<"1","0"," ">> \o W_FANB \o <<" ","8","0","0"," ","7","0","0","0","0">>
L_fan12 == W_FAN1 \o W_FAN2 \o <<" ","6","5","0">>
L_cpu_3300 == <<"C","P","U"," ","3","3","0","0">>

FanLines ==
    {L_fan1_1200, L_fan1_900, L_fan2_012, L_fana_long, L_fan3_nr, L_fan4_55,
     L_fanb_two, L_fan12, L_cpu_3300, <<>>}

FanRuns ==
    {NotFound, TimedOut} \cup {Ran(Join(ls)) : ls \in SeqsUpTo(FanLines, MaxFanLines)}

\* What the commands do during the polls of the monitor.
PollSensors ==
    {NotFound, TimedOut, Ran(Join(<<L_hdr_0_f0, L_temp_ok>>)),
     Ran(Join(<<L_temp_ok, L_hdr_0_f0>>))}

PollThermal ==
    {NotFound, TimedOut, Ran(<<"4","5","0","0","0","\n">>), Ran(<<>>)}

PollIpmitool ==
    {NotFound, TimedOut, Ran(Join(<<L_fan1_1200, L_cpu_3300>>)), Ran(L_cpu_3300)}

WriteOutcomes == {"ok", "IOError"}

(***************************************************************************)
(* The monitor: __init__, then polls as the days pass.                     *)
(***************************************************************************)
NoSrc == [sensors |-> NotFound, thermal |-> NotFound, ipmitool |-> NotFound,
          io |-> "none"]
NoArg == NotFound
NoRet == [raised |-> "none", value |-> None]

\* __init__ on day 0; the log directory starts empty.
Constructed ==
    /\ today = 0
    /\ log_file = LogFileName(DateOf(0))
    /\ files = [f \in LogFiles |-> <<>>]
    /\ polls = 0
    /\ src = NoSrc
    /\ status = NoStatus
    /\ raised = "none"
    /\ stderr = <<>>

Init ==
    /\ Constructed
    /\ arg = NoArg
    /\ ret = NoRet
    /\ pc = "monitor"

monitor_vars == <<today, log_file, files, polls, src, status, raised, stderr>>

\* Midnight passes.
Tick ==
    /\ pc = "monitor"
    /\ today < MaxDay
    /\ today' = today + 1
    /\ UNCHANGED <<log_file, files, polls, src, status, raised, stderr, arg, ret, pc>>

LogStatus ==
    /\ pc = "monitor"
    /\ polls < MaxPolls
    /\ \E sensors \in PollSensors, thermal \in PollThermal,
          ipmitool \in PollIpmitool, io \in WriteOutcomes :
          \E r \in {log_status(log_file, files, DateOf(today),
                              sensors, thermal, ipmitool, io)} :
              /\ src' = [sensors |-> sensors, thermal |-> thermal,
                         ipmitool |-> ipmitool, io |-> io]
              /\ status' = r.status
              /\ raised' = r.raised
              /\ files' = r.files
              /\ stderr' = stderr \o r.stderr
    /\ polls' = polls + 1
    /\ UNCHANGED <<today, log_file, arg, ret, pc>>

Next == Tick \/ LogStatus

Spec == Init /\ [][Next]_vars

(***************************************************************************)
(* Drivers of the three parsers: one call on one output of the command.    *)
(***************************************************************************)
InitDrive == Constructed /\ arg \in DriveRuns /\ ret = NoRet /\ pc = "call"
InitCpu == Constructed /\ arg \in CpuRuns /\ ret = NoRet /\ pc = "call"
InitFan == Constructed /\ arg \in FanRuns /\ ret = NoRet /\ pc = "call"

CallDrive ==
    /\ pc = "call"
    /\ ret' = get_drive_temperatures(arg)
    /\ pc' = "returned"
    /\ UNCHANGED <<monitor_vars, arg>>

CallCpu ==
    /\ pc = "call"
    /\ ret' = get_cpu_temperature(arg)
    /\ pc' = "returned"
    /\ UNCHANGED <<monitor_vars, arg>>

CallFan ==
    /\ pc = "call"
    /\ ret' = get_fan_status(arg)
    /\ pc' = "returned"
    /\ UNCHANGED <<monitor_vars, arg>>

SpecDrive == InitDrive /\ [][CallDrive]_vars
SpecCpu == InitCpu /\ [][CallCpu]_vars
SpecFan == InitFan /\ [][CallFan]_vars

(***************************************************************************)
(* Properties of the monitor (Spec).                                       *)
(***************************************************************************)
IsPrefix(a, b) == Len(a) <= Len(b) /\ SubSeq(b, 1, Len(a)) = a

Polled == polls' = polls + 1

ToolFailed(run) == run.kind \in {"FileNotFoundError", "TimeoutExpired"}

\* The %Y%m%d number of the date a timestamp carries.
YmdOfTimestamp(ts) == ts[1] * 10000 + ts[2] * 100 + ts[3]

\* C1: log_status never raises and always returns a snapshot with
\* timestamp, drive_temps, cpu_temp and fan_status, whatever each of the
\* three commands does (text, not found, timed out); a source that is not
\* found or times out only makes its own field absent ({} or None), the
\* other two fields are what their parsers compute.
C1_NeverRaises ==
    polls > 0 =>
        /\ raised = "none"
        /\ DOMAIN status = {"timestamp", "drive_temps", "cpu_temp", "fan_status"}
        /\ status.timestamp # <<>>
        /\ (ToolFailed(src.sensors) => status.drive_temps = EmptyDict)
        /\ (ToolFailed(src.thermal) => status.cpu_temp = None)
        /\ (ToolFailed(src.ipmitool) => status.fan_status = None)
        /\ (~ToolFailed(src.sensors) =>
                status.drive_temps = get_drive_temperatures(src.sensors).value)
        /\ (~ToolFailed(src.thermal) =>
                status.cpu_temp = get_cpu_temperature(src.thermal).value)
        /\ (~ToolFailed(src.ipmitool) =>
                status.fan_status = get_fan_status(src.ipmitool).value)

\* C2: every record lies in the file fan_monitor_<YYYYMMDD>.log whose date
\* is the date of the record's own timestamp, also when the date advances
\* between construction and a poll or between two polls.
C2_RecordInFileOfItsDate ==
    \A f \in DOMAIN files : \A i \in 1..Len(files[f]) :
        f.ymd = YmdOfTimestamp(files[f][i].json.timestamp)

\* C3: the log is append-only.  In every step each file's old contents are
\* a prefix of its new contents and no file disappears; a poll whose write
\* succeeds adds exactly one newline-terminated record to exactly one file.
C3_Step ==
    /\ DOMAIN files' = DOMAIN files
    /\ \A f \in DOMAIN files : IsPrefix(files[f], files'[f])
    /\ (Polled /\ raised' = "none" /\ src'.io = "ok") =>
            \E f \in DOMAIN files :
                /\ Len(files'[f]) = Len(files[f]) + 1
                /\ files'[f][Len(files'[f])].json = status'
                /\ files'[f][Len(files'[f])].end = "\n"
                /\ \A g \in DOMAIN files \ {f} : files'[g] = files[g]

C3_AppendOnly == [][C3_Step]_vars

\* C3 witness: a second poll has appended after an earlier record, which
\* is still in place.
C3_Witness ==
    /\ polls = 2
    /\ Len(files[log_file]) = 2
    /\ files[log_file][2].json = status
    /\ src.io = "ok"

ParsersReturn(s) ==
    /\ get_drive_temperatures(s.sensors).raised = "none"
    /\ get_cpu_temperature(s.thermal).raised = "none"
    /\ get_fan_status(s.ipmitool).raised = "none"

WriteWarning == "Warning: Could not write to log file"

Warned == \E i \in 1..Len(stderr) : stderr[i] = WriteWarning

\* C9: a poll whose write fails with an I/O error does not raise, leaves
\* every log file as it was and returns the snapshot a successful write
\* would have returned; a poll made after such a failure still writes its
\* own record.
C9_Step ==
    /\ (Polled /\ src'.io = "IOError" /\ ParsersReturn(src')) =>
            /\ raised' = "none"
            /\ files' = files
            /\ status' = log_status(log_file, files, DateOf(today), src'.sensors,
                                    src'.thermal, src'.ipmitool, "ok").status
            /\ status' # NoStatus
    /\ (Polled /\ Warned /\ src'.io = "ok" /\ ParsersReturn(src')) =>
            files'[log_file] = Append(files[log_file], [json |-> status', end |-> "\n"])

C9_WriteFailureAbsorbed == [][C9_Step]_vars

\* C9 witness: a write failed (the warning was printed) and a later poll
\* returned a snapshot and wrote it.
C9_Witness ==
    /\ Warned
    /\ polls = 2
    /\ src.io = "ok"
    /\ raised = "none"
    /\ Len(files[log_file]) = 1
    /\ files[log_file][1].json = status

(***************************************************************************)
(* Properties of get_fan_status (SpecFan).                                 *)
(***************************************************************************)
RecognizedChannels == {W_FAN1, W_FAN2, W_FAN3, W_FAN4, W_FANA, W_FANB}

OutputLines == Split(arg.stdout, "\n")

ThreeDigitsAt(line, i) ==
    i + 2 <= Len(line) /\ \A k \in i..(i + 2) : line[k] \in Digits

HasDigitRun(line) == \E i \in 1..Len(line) : ThreeDigitsAt(line, i)

\* Digits i .. i+n-1 of the line are its first run of 3 to 5 digits.
IsFirstRun(line, i, n) ==
    /\ n \in 3..5
    /\ i + n - 1 <= Len(line)
    /\ \A k \in i..(i + n - 1) : line[k] \in Digits
    /\ \A k \in 1..(i - 1) : ~ThreeDigitsAt(line, k)
    /\ (n = 5 \/ i + n > Len(line) \/ line[i + n] \notin Digits)

FirstRunValue(line) ==
    LET at == CHOOSE pr \in (1..Len(line)) \X (3..5) : IsFirstRun(line, pr[1], pr[2])
    IN  DecValue(SubSeq(line, at[1], at[1] + at[2] - 1))

\* The lines that give channel c a reading.
ReadingLines(c) ==
    {i \in 1..Len(OutputLines) :
        Contains(OutputLines[i], c) /\ HasDigitRun(OutputLines[i])}

Max(S) == CHOOSE m \in S : \A x \in S : x <= m

NoReadingAtAll == \A c \in RecognizedChannels : ReadingLines(c) = {}

\* C4 as stated: fan_status is None exactly when ipmitool was not found or
\* timed out; when it ran and no line matched a recognized channel the
\* result is an empty mapping.
C4_NoneIffToolFailed ==
    pc = "returned" =>
        /\ ret.raised = "none"
        /\ (ret.value = None <=> ToolFailed(arg))
        /\ (arg.kind = "ok" /\ NoReadingAtAll => ret.value = EmptyDict)

\* C4 amended: fan_status is None exactly when ipmitool was not found,
\* timed out, or ran without any line giving a recognized channel a
\* reading; it is never an empty mapping.
C4_NoneIffNoReading ==
    pc = "returned" =>
        /\ ret.raised = "none"
        /\ ret.value # EmptyDict
        /\ (ret.value = None <=> (ToolFailed(arg) \/ NoReadingAtAll))

\* C4 witness: ipmitool ran, a line names a channel without a reading, and
\* the result is None.
C4_Witness ==
    /\ pc = "returned"
    /\ arg.kind = "ok"
    /\ \E i \in 1..Len(OutputLines) : Contains(OutputLines[i], W_FAN3)
    /\ ret.value = None

FanMapping(lo) ==
    (pc = "returned" /\ arg.kind = "ok") =>
        /\ ret.raised = "none"
        /\ (ret.value # None => DOMAIN ret.value \subseteq RecognizedChannels)
        /\ \A c \in RecognizedChannels :
              IF ReadingLines(c) = {}
              THEN ret.value = None \/ c \notin DOMAIN ret.value
              ELSE /\ ret.value # None
                   /\ c \in DOMAIN ret.value
                   /\ ret.value[c] = FirstRunValue(OutputLines[Max(ReadingLines(c))])
                   /\ ret.value[c] \in lo..99999

\* C10 as stated: when ipmitool succeeds, each recognized channel maps to
\* the integer of the first run of 3 to 5 digits on the last line that
\* contains the channel name and such a run, a channel without such a line
\* is absent, and every value is a 3-to-5-digit integer (100..99999).
C10_LastMatchThreeToFiveDigits == FanMapping(100)

\* C10 amended: as above, but a value is the integer denoted by a run of
\* 3 to 5 digits, so it lies in 0..99999 (a run 012 gives 12).
C10_LastMatchRunValue == FanMapping(0)

\* C10 witness: FAN1 is read on two lines and the later line's value is
\* returned.
C10_Witness ==
    /\ pc = "returned"
    /\ arg.kind = "ok"
    /\ OutputLines = <<L_fan1_1200, L_fan1_900>>
    /\ ret.value[W_FAN1] = 900

(***************************************************************************)
(* Properties of get_drive_temperatures (SpecDrive).                       *)
(***************************************************************************)
\* The trailing hyphen-delimited token of a header line.
DeviceIdOf(header) == Split(header, "-")[Len(Split(header, "-"))]

HeaderAt(i) == OutputLines[i] \in HeaderLines

Headers == {i \in 1..Len(OutputLines) : HeaderAt(i)}

\* N header lines with pairwise distinct chip names, each optionally
\* followed by value lines.
WellFormedDump ==
    /\ arg.kind = "ok"
    /\ HeaderAt(1)
    /\ \A i \in 1..Len(OutputLines) : OutputLines[i] \in HeaderLines \cup TempLines
    /\ \A i, j \in Headers : i # j => OutputLines[i] # OutputLines[j]

\* C5: a dump of N header lines with pairwise distinct chip names gives a
\* mapping with exactly N keys, one per header line, and a header without
\* a temp1 line before the next header (or the end) is kept, mapped to None.
C5_OneKeyPerHeader ==
    (pc = "returned" /\ WellFormedDump) =>
        /\ ret.raised = "none"
        /\ Cardinality(DOMAIN ret.value) = Cardinality(Headers)
        /\ \A i \in Headers :
              /\ DeviceIdOf(OutputLines[i]) \in DOMAIN ret.value
              /\ (i = Len(OutputLines) \/ HeaderAt(i + 1)) =>
                     ret.value[DeviceIdOf(OutputLines[i])] = None

SeenHeaderBefore(i) ==
    \E k \in 1..(i - 1) : Contains(OutputLines[k], W_drivetemp_scsi)

ValueLineBeforeAnyHeader ==
    /\ arg.kind = "ok"
    /\ \E i \in 1..Len(OutputLines) :
          OutputLines[i] \in TempLines /\ ~SeenHeaderBefore(i)

\* The lines from the first header line on.
FromFirstHeader ==
    IF \E i \in 1..Len(OutputLines) : Contains(OutputLines[i], W_drivetemp_scsi)
    THEN SubSeq(OutputLines,
                CHOOSE i \in 1..Len(OutputLines) :
                    /\ Contains(OutputLines[i], W_drivetemp_scsi)
                    /\ ~SeenHeaderBefore(i),
                Len(OutputLines))
    ELSE <<>>

\* C6: a temp1 line met before any header line is ignored: the scan does
\* not raise, the line adds no entry, and the remaining lines are parsed as
\* if the early value lines were not there.
C6_EarlyValueLineIgnored ==
    (pc = "returned" /\ ValueLineBeforeAnyHeader) =>
        /\ ret.raised = "none"
        /\ ret.value = get_drive_temperatures(Ran(Join(FromFirstHeader))).value

\* A header, then one malformed temp1 line, then no further value line.
HeaderThenMalformed ==
    /\ arg.kind = "ok"
    /\ Len(OutputLines) >= 2
    /\ HeaderAt(1)
    /\ OutputLines[2] \in MalformedTempLines
    /\ \A i \in 3..Len(OutputLines) : OutputLines[i] \notin TempLines

\* C7: a device whose header is followed by a malformed temp1 line (no
\* '+', no degree sign, or non-numeric text between them) maps to None;
\* the scan does not raise and goes on to the following lines.
C7_MalformedValueLineGivesNone ==
    (pc = "returned" /\ HeaderThenMalformed) =>
        /\ ret.raised = "none"
        /\ ret.value[DeviceIdOf(OutputLines[1])] = None
        /\ \A i \in 3..Len(OutputLines) :
              HeaderAt(i) => DeviceIdOf(OutputLines[i]) \in DOMAIN ret.value

(***************************************************************************)
(* Properties of get_cpu_temperature (SpecCpu).                            *)
(***************************************************************************)
TrimmedFirstLine == Strip(OutputLines[1])

IsIntegerText(t) ==
    \/ t # <<>> /\ AllDigits(t)
    \/ Len(t) > 1 /\ t[1] = "-" /\ AllDigits(Tail(t))

IntegerOf(t) == IF t[1] = "-" THEN -DecValue(Tail(t)) ELSE DecValue(t)

\* C8: an output whose trimmed first line is a millidegree integer N gives
\* N/1000 degrees; every non-numeric or empty output and every failure of
\* the reader gives None; nothing is raised.
C8_MillidegreesOrNone ==
    pc = "returned" =>
        /\ ret.raised = "none"
        /\ IF arg.kind = "ok" /\ IsIntegerText(TrimmedFirstLine)
           THEN /\ ret.value.tag = "float"
                /\ ret.value.num * 1000 = IntegerOf(TrimmedFirstLine) * ret.value.den
           ELSE ret.value = None

====
